---- MODULE Spec2Model ----
(***************************************************************************)
(* audio-ident service: the dual-lane search orchestrator                  *)
(* (app/search/orchestrator.py, app/routers/search.py, app/search/vibe.py, *)
(* app/search/exact.py) and the HTTP ingest endpoint with its pipeline     *)
(* (app/routers/ingest.py, app/ingest/pipeline.py).                        *)
(*                                                                         *)
(* Coroutines are modelled at the granularity of their await points: one   *)
(* action is the code a coroutine runs between two suspensions of the      *)
(* single-threaded asyncio event loop.  Wall-clock time is counted in      *)
(* whole seconds per lane (laneElapsed) so that the two wait_for budgets   *)
(* are independent, observable quantities.                                 *)
(***************************************************************************)
EXTENDS Naturals, Sequences, FiniteSets

(***************************************************************************)
(* Program constants                                                       *)
(***************************************************************************)
EXACT_TIMEOUT_SECONDS == 3

VIBE_TIMEOUT_SECONDS == 4

Lanes == {"exact", "vibe"}

SearchMode == {"exact", "vibe", "both"}

\* Durations are counted in hundredths of a second.
MIN_QUERY_DURATION == 300

SHORT_CLIP_THRESHOLD_SEC == 500

\* (start, stop) of the three overlapping sub-windows.
SUB_WINDOWS == {<<0, 350>>, <<75, 425>>, <<150, 500>>}

\* Durations of the PCM handed to orchestrate_search: search_audio passes
\* clips of at least MIN_QUERY_DURATION, other callers any PCM, the empty
\* one included.
ClipDurations == {0, 100, 300, 500, 501}

\* Uploads to POST /search: a zero-byte body, a body over MAX_UPLOAD_BYTES,
\* a non-audio body, an audio container the decoder rejects, a clip shorter
\* than MIN_QUERY_DURATION, and a clip that passes.
SearchUploads == {"empty", "huge", "text", "corrupt", "brief", "clip"}

\* Ranked match lists a lane can return (identifiers of tracks).
ResultLists == {<< >>, <<"t1">>, <<"t1", "t2">>}

VARIABLES
    clapLoaded,     \* app.state.clap_model / clap_processor are not None
    reqState,       \* READY, DISPATCHED, CLASSIFIED, TERMINAL
    sMode,          \* mode of the search request ("none" before dispatch)
    clip,           \* duration of the decoded clip (0 before dispatch)
    lanePc,         \* per lane: position of the lane coroutine
    laneOutcome,    \* per lane: none, result, timeout, error
    laneElapsed,    \* per lane: seconds spent inside asyncio.wait_for
    laneStarts,     \* per lane: how many times the lane coroutine was started
    laneMatches,    \* per lane: the list the lane returned
    queriesLeft,    \* olaf_query calls the exact lane still has to make
    procRunning,    \* an olaf_c query subprocess of this request is alive
    threadRunning,  \* an executor thread runs generate_embedding for this request
    clapSem,        \* _clap_semaphore: free, req (this request), other
    orchResult,     \* none, response, SearchTimeoutError, SearchUnavailableError
    respExact,      \* SearchResponse.exact_matches
    respVibe,       \* SearchResponse.vibe_matches
    httpStatus,     \* status code of the HTTP answer (0 = not answered)
    httpCode,       \* error code of the HTTP answer ("" = none)
    \* ---- ingest side ----
    tracks,         \* relational store: the Track rows
    canonical,      \* canonical file store: hashes with a file under raw/
    olafIndex,      \* fingerprint store: track ids indexed by olaf_c store
    qdrantPoints,   \* vector store: track ids that have points
    ingestLocked,   \* _ingest_lock.locked()
    ipc,            \* per ingest request: position of ingest_audio / ingest_file
                    \* (new, read, hash_check, decode, gather, commit, done,
                    \* cancelled)
    iUpload,        \* per ingest request: the uploaded content
    iTmp,           \* per ingest request: its NamedTemporaryFile exists
    iStatus,        \* per ingest request: IngestResult.status
    iError,         \* per ingest request: class of IngestResult.error
    iTrackId,       \* per ingest request: IngestResult.track_id
    iMinted,        \* per ingest request: the uuid4 minted in step 6
    chromaPc,       \* per ingest request: chromaprint_task (none, db, done,
                    \* cancelled)
    olafPc,         \* per ingest request: olaf_task (none, proc, done)
    olafOk,         \* per ingest request: what olaf_task returned
    olafTmp,        \* per ingest request: the .raw file of olaf_index_track exists
    embCount,       \* per ingest request: embedding_result[0]
    iWork,          \* per ingest request: pipeline steps begun for it
    iHttp,          \* per ingest request: HTTP status (0 = not answered)
    iHttpCode,      \* per ingest request: error code or body status
    \* ---- scoring of the exact lane ----
    scorePc,        \* idle, windows | full (olaf_query answered), scored |
                    \* full_scored, lookup, returned
    window_results, \* _query_with_subwindows: the matches of each sub-window
    candidates,     \* what _consensus_score / _matches_to_candidates returned
    top_matches,    \* run_exact_lane: filtered, sorted, truncated candidates
    exact_tracks_by_id, \* _enrich_with_metadata: ids get_tracks_by_ids found
    exact_matches,  \* what run_exact_lane returned
    \* ---- data path of the vibe lane ----
    vibePc,         \* idle, tracks (awaiting _get_tracks_by_ids), returned, raised
    reply,          \* what client.query_points did: an error, or its points
    chunk_hits,     \* what _query_qdrant returned
    exact_match_track_id, \* parameter of run_vibe_lane ("None": no exclusion)
    vibe_max_results,     \* parameter of run_vibe_lane
    track_results,  \* what aggregate_chunk_hits returned
    limited_results,      \* filtered_results[:max_results]
    vibe_tracks_by_id,    \* ids _get_tracks_by_ids found
    vibe_matches    \* what run_vibe_lane returned

searchVars == <<clapLoaded, reqState, sMode, clip, lanePc, laneOutcome,
                laneElapsed, laneStarts, laneMatches, queriesLeft,
                procRunning, threadRunning, clapSem, orchResult,
                respExact, respVibe, httpStatus, httpCode>>

ingestVars == <<tracks, canonical, olafIndex, qdrantPoints, ingestLocked, ipc,
                iUpload, iTmp, iStatus, iError, iTrackId, iMinted, chromaPc,
                olafPc, olafOk, olafTmp, embCount, iWork, iHttp, iHttpCode>>

exactScoreVars == <<scorePc, window_results, candidates, top_matches,
                    exact_tracks_by_id, exact_matches>>

vibeScoreVars == <<vibePc, reply, chunk_hits, exact_match_track_id,
                   vibe_max_results, track_results, limited_results,
                   vibe_tracks_by_id, vibe_matches>>

scoreVars == <<exactScoreVars, vibeScoreVars>>

vars == <<searchVars, ingestVars, scoreVars>>

(***************************************************************************)
(* Helpers of the search side                                              *)
(***************************************************************************)
Other(l) == IF l = "exact" THEN "vibe" ELSE "exact"

\* The lanes orchestrate_search runs for a mode.
Requested(m) ==
    IF m = "exact" THEN {"exact"}
    ELSE IF m = "vibe" THEN {"vibe"}
    ELSE IF m = "both" THEN {"exact", "vibe"}
    ELSE {}

\* timeout= argument of the lane's asyncio.wait_for.
Budget(l) == IF l = "exact" THEN EXACT_TIMEOUT_SECONDS ELSE VIBE_TIMEOUT_SECONDS

\* Mutant: the wait for _clap_semaphore sits outside the lane's wait_for.
Awaiting_SemWaitUntimed(l) ==
    IF l = "exact" THEN {"query", "enrich"}
    ELSE {"infer", "qdrant", "tracks"}

\* Positions at which a lane coroutine is suspended inside wait_for.
Awaiting(l) ==
    IF l = "exact" THEN {"query", "enrich"}
    ELSE {"sem_wait", "infer", "qdrant", "tracks"}

\* min(stop_sec, clip_duration)
ClampedStop(w, d) == IF w[2] < d THEN w[2] ELSE d

\* Mutant: a clip of exactly the threshold is queried as a full clip.
QueryCount_ThresholdExclusive(d) ==
    IF d = 0 THEN 0
    ELSE IF d < SHORT_CLIP_THRESHOLD_SEC
    THEN Cardinality({w \in SUB_WINDOWS : ~(w[1] >= ClampedStop(w, d))})
    ELSE 1

\* run_exact_lane: the olaf_query calls it makes for a clip of duration d.
\* None for empty PCM; in sub-window mode one per window that is not
\* skipped (start_sec >= actual_stop); one in full-clip mode.
QueryCount(d) ==
    IF d = 0 THEN 0
    ELSE IF d <= SHORT_CLIP_THRESHOLD_SEC
    THEN Cardinality({w \in SUB_WINDOWS : ~(w[1] >= ClampedStop(w, d))})
    ELSE 1

\* _validate_upload: the error code of a rejected upload.
validate_upload(u) ==
    IF u = "empty" THEN "FILE_TOO_LARGE"
    ELSE IF u = "huge" THEN "FILE_TOO_LARGE"
    ELSE IF u = "text" THEN "UNSUPPORTED_FORMAT"
    ELSE "ok"

\* search_audio, steps 1 to 3: the error code of its 400 answer.
RouterReject(u) ==
    IF validate_upload(u) # "ok" THEN validate_upload(u)
    ELSE IF u = "corrupt" THEN "UNSUPPORTED_FORMAT"
    ELSE IF u = "brief" THEN "AUDIO_TOO_SHORT"
    ELSE "ok"

\* The mode search_audio passes to orchestrate_search for a requested mode:
\* mode=mode, whether or not the model is loaded.
OrchestratorMode(m, loaded) == m

\* Mutant: leaving the async with block keeps the semaphore.
SemOnExit_Held == clapSem

\* _clap_semaphore after `async with _clap_semaphore` is left, by return,
\* by exception or by cancellation.
SemOnExit == "free"

\* The lane coroutine ends with outcome o and (for a result) list ms.
Finish(l, o, ms) ==
    /\ lanePc' = [lanePc EXCEPT ![l] = "done"]
    /\ laneOutcome' = [laneOutcome EXCEPT ![l] = o]
    /\ laneMatches' = [laneMatches EXCEPT ![l] = ms]

SearchInit ==
    /\ clapLoaded \in BOOLEAN
    /\ reqState = "READY"
    /\ sMode = "none"
    /\ clip = 0
    /\ lanePc = [l \in Lanes |-> "idle"]
    /\ laneOutcome = [l \in Lanes |-> "none"]
    /\ laneElapsed = [l \in Lanes |-> 0]
    /\ laneStarts = [l \in Lanes |-> 0]
    /\ laneMatches = [l \in Lanes |-> << >>]
    /\ queriesLeft = 0
    /\ procRunning = FALSE
    /\ threadRunning = FALSE
    /\ clapSem = "free"
    /\ orchResult = "none"
    /\ respExact = << >>
    /\ respVibe = << >>
    /\ httpStatus = 0
    /\ httpCode = ""

\* search_audio answers 400 before orchestrate_search is called: the upload
\* fails _validate_upload, does not decode, or is shorter than 3 s.
Reject(u) ==
    /\ reqState = "READY"
    /\ httpStatus = 0
    /\ RouterReject(u) # "ok"
    /\ httpStatus' = 400
    /\ httpCode' = RouterReject(u)
    /\ UNCHANGED <<clapLoaded, reqState, sMode, clip, lanePc, laneOutcome,
                   laneElapsed, laneStarts, laneMatches, queriesLeft,
                   procRunning, threadRunning, clapSem, orchResult, respExact,
                   respVibe>>
    /\ UNCHANGED ingestVars
    /\ UNCHANGED scoreVars

(***************************************************************************)
(* orchestrate_search: dispatch.  In mode both the two lanes become tasks  *)
(* (asyncio.create_task); in a single mode the one lane is awaited inline. *)
(***************************************************************************)
Dispatch(m, c) ==
    /\ reqState = "READY"
    /\ httpStatus = 0
    /\ reqState' = "DISPATCHED"
    /\ sMode' = OrchestratorMode(m, clapLoaded)
    /\ clip' = c
    /\ lanePc' = [l \in Lanes |->
                    IF l \in Requested(sMode') THEN "created" ELSE "idle"]
    /\ laneStarts' = [l \in Lanes |->
                        IF l \in Requested(sMode')
                        THEN laneStarts[l] + 1 ELSE laneStarts[l]]
    /\ queriesLeft' = QueryCount(c)
    /\ UNCHANGED <<clapLoaded, laneOutcome, laneElapsed, laneMatches, procRunning,
                   threadRunning, clapSem, orchResult, respExact, respVibe,
                   httpStatus, httpCode>>
    /\ UNCHANGED ingestVars
    /\ UNCHANGED scoreVars

(***************************************************************************)
(* The exact lane: run_exact_lane under _run_exact_with_timeout            *)
(***************************************************************************)
\* First run of the lane up to its first suspension: empty PCM returns [];
\* otherwise olaf_query writes the temp file and spawns olaf_c; a missing
\* binary raises OlafError.
ExactStart ==
    /\ lanePc["exact"] = "created"
    /\ IF clip = 0
       THEN /\ Finish("exact", "result", << >>)
            /\ UNCHANGED procRunning
       ELSE \/ /\ lanePc' = [lanePc EXCEPT !["exact"] = "query"]
               /\ procRunning' = TRUE
               /\ UNCHANGED <<laneOutcome, laneMatches>>
            \/ /\ Finish("exact", "error", << >>)
               /\ UNCHANGED procRunning
    /\ UNCHANGED <<clapLoaded, reqState, sMode, clip, laneElapsed, laneStarts,
                   queriesLeft, threadRunning, clapSem, orchResult, respExact,
                   respVibe, httpStatus, httpCode>>
    /\ UNCHANGED ingestVars
    /\ UNCHANGED scoreVars

\* proc.communicate() returns: the subprocess has exited, the temp file is
\* unlinked.  Either the next window is queried, or scoring leaves nothing
\* (empty result), or candidates go to _enrich_with_metadata, or an
\* unexpected exception became OlafError.
ExactQueryReturn ==
    /\ lanePc["exact"] = "query"
    /\ procRunning
    /\ \/ /\ queriesLeft > 1
          /\ queriesLeft' = queriesLeft - 1
          /\ procRunning' = TRUE
          /\ UNCHANGED <<lanePc, laneOutcome, laneMatches>>
       \/ /\ queriesLeft = 1
          /\ queriesLeft' = 0
          /\ procRunning' = FALSE
          /\ \/ Finish("exact", "result", << >>)
             \/ /\ lanePc' = [lanePc EXCEPT !["exact"] = "enrich"]
                /\ UNCHANGED <<laneOutcome, laneMatches>>
       \/ /\ procRunning' = FALSE
          /\ Finish("exact", "error", << >>)
          /\ UNCHANGED queriesLeft
    /\ UNCHANGED <<clapLoaded, reqState, sMode, clip, laneElapsed, laneStarts,
                   threadRunning, clapSem, orchResult, respExact, respVibe,
                   httpStatus, httpCode>>
    /\ UNCHANGED ingestVars
    /\ UNCHANGED scoreVars

\* get_tracks_by_ids returns (or the relational store raises).
ExactEnrichReturn ==
    /\ lanePc["exact"] = "enrich"
    /\ \/ \E ms \in ResultLists : Finish("exact", "result", ms)
       \/ Finish("exact", "error", << >>)
    /\ UNCHANGED <<clapLoaded, reqState, sMode, clip, laneElapsed, laneStarts,
                   queriesLeft, procRunning, threadRunning, clapSem, orchResult,
                   respExact, respVibe, httpStatus, httpCode>>
    /\ UNCHANGED ingestVars
    /\ UNCHANGED scoreVars

\* An olaf_c query subprocess whose awaiting coroutine was cancelled exits.
ProcExit ==
    /\ procRunning
    /\ lanePc["exact"] # "query"
    /\ procRunning' = FALSE
    /\ UNCHANGED <<clapLoaded, reqState, sMode, clip, lanePc, laneOutcome,
                   laneElapsed, laneStarts, laneMatches, queriesLeft,
                   threadRunning, clapSem, orchResult, respExact, respVibe,
                   httpStatus, httpCode>>
    /\ UNCHANGED ingestVars
    /\ UNCHANGED scoreVars

(***************************************************************************)
(* The vibe lane: run_vibe_lane under _run_vibe_with_timeout               *)
(***************************************************************************)
\* First run up to the first suspension: a missing model raises ValueError;
\* then empty PCM returns []; otherwise the lane enters `async with _clap_semaphore`, which acquires
\* without suspending when the semaphore is free and hands
\* generate_embedding to the default executor.
VibeStart ==
    /\ lanePc["vibe"] = "created"
    /\ IF ~clapLoaded
       THEN /\ Finish("vibe", "error", << >>)
            /\ UNCHANGED <<clapSem, threadRunning>>
       ELSE IF clip = 0
       THEN /\ Finish("vibe", "result", << >>)
            /\ UNCHANGED <<clapSem, threadRunning>>
       ELSE IF clapSem = "free"
       THEN /\ clapSem' = "req"
            /\ threadRunning' = TRUE
            /\ lanePc' = [lanePc EXCEPT !["vibe"] = "infer"]
            /\ UNCHANGED <<laneOutcome, laneMatches>>
       ELSE /\ lanePc' = [lanePc EXCEPT !["vibe"] = "sem_wait"]
            /\ UNCHANGED <<clapSem, threadRunning, laneOutcome, laneMatches>>
    /\ UNCHANGED <<clapLoaded, reqState, sMode, clip, laneElapsed, laneStarts,
                   queriesLeft, procRunning, orchResult, respExact, respVibe,
                   httpStatus, httpCode>>
    /\ UNCHANGED ingestVars
    /\ UNCHANGED scoreVars

\* The semaphore is handed to the waiting lane; inference starts.
VibeSemAcquired ==
    /\ lanePc["vibe"] = "sem_wait"
    /\ clapSem = "free"
    /\ clapSem' = "req"
    /\ threadRunning' = TRUE
    /\ lanePc' = [lanePc EXCEPT !["vibe"] = "infer"]
    /\ UNCHANGED <<clapLoaded, reqState, sMode, clip, laneOutcome, laneElapsed,
                   laneStarts, laneMatches, queriesLeft, procRunning, orchResult,
                   respExact, respVibe, httpStatus, httpCode>>
    /\ UNCHANGED ingestVars
    /\ UNCHANGED scoreVars

\* run_in_executor completes: the thread is over, the semaphore is released
\* on leaving the async with block; the embedding goes to _query_qdrant, or
\* generate_embedding raised EmbeddingError.
VibeInferReturn ==
    /\ lanePc["vibe"] = "infer"
    /\ threadRunning
    /\ threadRunning' = FALSE
    /\ clapSem' = SemOnExit
    /\ \/ /\ lanePc' = [lanePc EXCEPT !["vibe"] = "qdrant"]
          /\ UNCHANGED <<laneOutcome, laneMatches>>
       \/ Finish("vibe", "error", << >>)
    /\ UNCHANGED <<clapLoaded, reqState, sMode, clip, laneElapsed, laneStarts,
                   queriesLeft, procRunning, orchResult, respExact, respVibe,
                   httpStatus, httpCode>>
    /\ UNCHANGED ingestVars
    /\ UNCHANGED scoreVars

\* _query_qdrant returns: a vector-store error is caught and gives no hits;
\* no hits, or nothing above the threshold, ends the lane with []; otherwise
\* the lane looks the tracks up in the relational store.  A payload field
\* that int() or float() rejects raises out of _query_qdrant.
VibeQdrantReturn ==
    /\ lanePc["vibe"] = "qdrant"
    /\ \/ Finish("vibe", "result", << >>)
       \/ /\ lanePc' = [lanePc EXCEPT !["vibe"] = "tracks"]
          /\ UNCHANGED <<laneOutcome, laneMatches>>
       \/ Finish("vibe", "error", << >>)
    /\ UNCHANGED <<clapLoaded, reqState, sMode, clip, laneElapsed, laneStarts,
                   queriesLeft, procRunning, threadRunning, clapSem, orchResult,
                   respExact, respVibe, httpStatus, httpCode>>
    /\ UNCHANGED ingestVars
    /\ UNCHANGED scoreVars

\* _get_tracks_by_ids returns (or the relational store raises).
VibeTracksReturn ==
    /\ lanePc["vibe"] = "tracks"
    /\ \/ \E ms \in ResultLists : Finish("vibe", "result", ms)
       \/ Finish("vibe", "error", << >>)
    /\ UNCHANGED <<clapLoaded, reqState, sMode, clip, laneElapsed, laneStarts,
                   queriesLeft, procRunning, threadRunning, clapSem, orchResult,
                   respExact, respVibe, httpStatus, httpCode>>
    /\ UNCHANGED ingestVars
    /\ UNCHANGED scoreVars

\* The executor thread of a cancelled lane runs generate_embedding to its
\* end; nobody reads the embedding.
ThreadFinish ==
    /\ threadRunning
    /\ lanePc["vibe"] # "infer"
    /\ threadRunning' = FALSE
    /\ UNCHANGED <<clapLoaded, reqState, sMode, clip, lanePc, laneOutcome,
                   laneElapsed, laneStarts, laneMatches, queriesLeft,
                   procRunning, clapSem, orchResult, respExact, respVibe,
                   httpStatus, httpCode>>
    /\ UNCHANGED ingestVars
    /\ UNCHANGED scoreVars

\* Vibe lanes of other search requests take and give back the semaphore.
OtherAcquire ==
    /\ clapSem = "free"
    /\ clapSem' = "other"
    /\ UNCHANGED <<clapLoaded, reqState, sMode, clip, lanePc, laneOutcome,
                   laneElapsed, laneStarts, laneMatches, queriesLeft,
                   procRunning, threadRunning, orchResult, respExact, respVibe,
                   httpStatus, httpCode>>
    /\ UNCHANGED ingestVars
    /\ UNCHANGED scoreVars

OtherRelease ==
    /\ clapSem = "other"
    /\ clapSem' = "free"
    /\ UNCHANGED <<clapLoaded, reqState, sMode, clip, lanePc, laneOutcome,
                   laneElapsed, laneStarts, laneMatches, queriesLeft,
                   procRunning, threadRunning, orchResult, respExact, respVibe,
                   httpStatus, httpCode>>
    /\ UNCHANGED ingestVars
    /\ UNCHANGED scoreVars

(***************************************************************************)
(* asyncio.wait_for: the lane's own budget                                 *)
(***************************************************************************)
\* One second of wall-clock time passes for every lane suspended inside its
\* wait_for.  A lane whose budget is used up is timed out before time moves.
Tick ==
    /\ \E l \in Lanes : lanePc[l] \in Awaiting(l)
    /\ \A l \in Lanes : lanePc[l] \in Awaiting(l) => laneElapsed[l] < Budget(l)
    /\ laneElapsed' = [l \in Lanes |->
                         IF lanePc[l] \in Awaiting(l)
                         THEN laneElapsed[l] + 1 ELSE laneElapsed[l]]
    /\ UNCHANGED <<clapLoaded, reqState, sMode, clip, lanePc, laneOutcome,
                   laneStarts, laneMatches, queriesLeft, procRunning,
                   threadRunning, clapSem, orchResult, respExact, respVibe,
                   httpStatus, httpCode>>
    /\ UNCHANGED ingestVars
    /\ UNCHANGED scoreVars

\* Mutant: one lane's timeout cancels its sibling too.
Cancelled_WithSibling(l) == Lanes

\* The lanes a timeout of lane l cancels: wait_for cancels the coroutine it
\* wraps, nothing else.
Cancelled(l) == {l}

\* wait_for of lane l expires: CancelledError is thrown into the coroutine
\* at its await.  `async with _clap_semaphore` releases the semaphore on the
\* way out; the executor thread and the olaf_c child are not stopped by the
\* cancellation.  wait_for then raises TimeoutError.
LaneTimeout(l) ==
    /\ lanePc[l] \in Awaiting(l)
    /\ laneElapsed[l] = Budget(l)
    /\ lanePc' = [k \in Lanes |->
                    IF k \in Cancelled(l) /\ lanePc[k] \in Awaiting(k) \cup {"created"}
                    THEN "done" ELSE lanePc[k]]
    /\ laneOutcome' = [k \in Lanes |->
                    IF k = l THEN "timeout"
                    ELSE IF k \in Cancelled(l) /\ lanePc[k] \in Awaiting(k) \cup {"created"}
                    THEN "cancelled" ELSE laneOutcome[k]]
    /\ clapSem' = IF "vibe" \in Cancelled(l) /\ lanePc["vibe"] = "infer"
                  THEN SemOnExit ELSE clapSem
    /\ UNCHANGED <<clapLoaded, reqState, sMode, clip, laneElapsed, laneStarts,
                   laneMatches, queriesLeft, procRunning, threadRunning,
                   orchResult, respExact, respVibe, httpStatus, httpCode>>
    /\ UNCHANGED ingestVars
    /\ UNCHANGED scoreVars

(***************************************************************************)
(* orchestrate_search: classification, and the router's answer             *)
(***************************************************************************)
\* asyncio.gather(exact_task, vibe_task, return_exceptions=True) returns
\* when every task is done; a single lane is simply awaited.
GatherReady(m) == \A l \in Requested(m) : lanePc[l] = "done"

\* Mutant: a lane exception is swallowed and an empty response returned.
ClassifySingle_SwallowError(o) ==
    IF o = "timeout" THEN "SearchTimeoutError" ELSE "response"

\* mode exact / vibe: except TimeoutError / except Exception.
ClassifySingle(o) ==
    IF o = "result" THEN "response"
    ELSE IF o = "timeout" THEN "SearchTimeoutError"
    ELSE "SearchUnavailableError"

\* Mutant: any failed lane fails the request (`or` for `and`).
ClassifyBoth_AnyFailure(eo, vo) ==
    IF eo # "result" \/ vo # "result"
    THEN IF eo = "timeout" /\ vo = "timeout"
         THEN "SearchTimeoutError"
         ELSE "SearchUnavailableError"
    ELSE "response"

\* Mutant: the both-timeout case is not told apart.
ClassifyBoth_NoTimeoutCase(eo, vo) ==
    IF eo # "result" /\ vo # "result"
    THEN "SearchUnavailableError"
    ELSE "response"

\* Mutant: one timeout is enough for the timeout error (`or` for `and`).
ClassifyBoth_AnyTimeout(eo, vo) ==
    IF eo # "result" /\ vo # "result"
    THEN IF eo = "timeout" \/ vo = "timeout"
         THEN "SearchTimeoutError"
         ELSE "SearchUnavailableError"
    ELSE "response"

\* _run_both_lanes: exact_failed / vibe_failed / exact_timeout / vibe_timeout.
ClassifyBoth(eo, vo) ==
    IF eo # "result" /\ vo # "result"
    THEN IF eo = "timeout" /\ vo = "timeout"
         THEN "SearchTimeoutError"
         ELSE "SearchUnavailableError"
    ELSE "response"

\* The list a lane contributes to the response: its result, or the initial
\* empty list when it failed or was not requested.
LaneArray(l) == IF laneOutcome[l] = "result" THEN laneMatches[l] ELSE << >>

Classify ==
    /\ reqState = "DISPATCHED"
    /\ GatherReady(sMode)
    /\ reqState' = "CLASSIFIED"
    /\ orchResult' = IF sMode = "both"
                     THEN ClassifyBoth(laneOutcome["exact"], laneOutcome["vibe"])
                     ELSE ClassifySingle(laneOutcome[sMode])
    /\ respExact' = IF orchResult' = "response" THEN LaneArray("exact") ELSE << >>
    /\ respVibe' = IF orchResult' = "response" THEN LaneArray("vibe") ELSE << >>
    /\ UNCHANGED <<clapLoaded, sMode, clip, lanePc, laneOutcome, laneElapsed,
                   laneStarts, laneMatches, queriesLeft, procRunning,
                   threadRunning, clapSem, httpStatus, httpCode>>
    /\ UNCHANGED ingestVars
    /\ UNCHANGED scoreVars

\* search_audio: the response, or the except clauses' _error_response.
HttpStatusOf(res) ==
    IF res = "response" THEN 200
    ELSE IF res = "SearchUnavailableError" THEN 503
    ELSE 504

HttpCodeOf(res) ==
    IF res = "response" THEN ""
    ELSE IF res = "SearchUnavailableError" THEN "SEARCH_UNAVAILABLE"
    ELSE "SEARCH_TIMEOUT"

Respond ==
    /\ reqState = "CLASSIFIED"
    /\ reqState' = "TERMINAL"
    /\ httpStatus' = HttpStatusOf(orchResult)
    /\ httpCode' = HttpCodeOf(orchResult)
    /\ UNCHANGED <<clapLoaded, sMode, clip, lanePc, laneOutcome, laneElapsed,
                   laneStarts, laneMatches, queriesLeft, procRunning,
                   threadRunning, clapSem, orchResult, respExact, respVibe>>
    /\ UNCHANGED ingestVars
    /\ UNCHANGED scoreVars

SearchNext ==
    \/ \E u \in SearchUploads : Reject(u)
    \/ \E m \in SearchMode, c \in ClipDurations : Dispatch(m, c)
    \/ ExactStart
    \/ ExactQueryReturn
    \/ ExactEnrichReturn
    \/ ProcExit
    \/ VibeStart
    \/ VibeSemAcquired
    \/ VibeInferReturn
    \/ VibeQdrantReturn
    \/ VibeTracksReturn
    \/ ThreadFinish
    \/ OtherAcquire
    \/ OtherRelease
    \/ Tick
    \/ \E l \in Lanes : LaneTimeout(l)
    \/ Classify
    \/ Respond


(***************************************************************************)
(* The ingest side: ingest_audio (routers/ingest.py) and ingest_file       *)
(* (ingest/pipeline.py)                                                    *)
(***************************************************************************)
\* Concurrent ingest requests of one process.
NumIngest == 2

IngestReqs == 1 .. NumIngest

MIN_INGESTION_DURATION == 3

MAX_INGESTION_DURATION == 1800

\* Uploaded contents: a zero-byte body, a body over MAX_UPLOAD_BYTES, a
\* non-audio body, two recordings of the same 10 s song in different
\* encodings, a 2 s clip, and an audio container the decoder rejects.
Uploads == {"empty", "huge", "text", "songA", "songB", "short", "corrupt"}

\* ingest_audio, steps 1 and 2: the error code of a rejected upload.
ValidateUpload(u) ==
    IF u = "empty" THEN "EMPTY_FILE"
    ELSE IF u = "huge" THEN "FILE_TOO_LARGE"
    ELSE IF u = "text" THEN "UNSUPPORTED_FORMAT"
    ELSE "ok"

\* compute_file_hash: SHA-256 of the bytes (distinct bytes, distinct digests).
FileHash(u) ==
    IF u = "songA" THEN "hA"
    ELSE IF u = "songB" THEN "hB"
    ELSE IF u = "short" THEN "hS"
    ELSE "hC"

\* decode_dual_rate raises AudioDecodeError on this content.
DecodeFails(u) == u = "corrupt"

\* pcm_duration_seconds of the decoded content, in seconds.
Duration(u) == IF u = "short" THEN 2 ELSE 10

\* The Track row an earlier run left for songA.
StoredTrack ==
    [id |-> <<"uuid", 0>>, file_hash_sha256 |-> "hA", chromaprint_fingerprint |-> "fpA",
     chromaprint_duration |-> 10, olaf_indexed |-> TRUE, embedding_dim |-> 512]

\* uuid.uuid4() of request r: fresh, so unlike every stored id.
MintedId(r) == <<"uuid", r>>

\* track_id = None
NoId == <<"None", 0>>

\* Mutant: the hash lookup never finds a row.
check_file_duplicate_Blind(h) == {}

\* check_file_duplicate: ids of the rows with this hash (at most one: the
\* column is unique).
check_file_duplicate(h) == {t.id : t \in {x \in tracks : x.file_hash_sha256 = h}}

\* check_content_duplicate: the rows its SELECT returns for duration d
\* (fingerprint set, 0.9 d <= chromaprint_duration <= 1.1 d).
ContentCandidates(d) ==
    {t \in tracks : /\ t.chromaprint_fingerprint # "null"
                    /\ 9 * d <= 10 * t.chromaprint_duration
                    /\ 10 * t.chromaprint_duration <= 11 * d}

\* The raw fingerprint fpcalc prints for the content: the two encodings of
\* the song give the same one.
FpcalcOutput(u) ==
    IF u \in {"songA", "songB"} THEN "fpA"
    ELSE IF u = "short" THEN "fpS"
    ELSE "null"

\* The value pipeline.py binds to `fingerprint`: generate_chromaprint is an
\* async def called without await, so it is a coroutine object and never a
\* string.
ChromaprintValue(u) == "coroutine"

\* A value the driver can bind to the Text column chromaprint_fingerprint.
Storable(fp) == fp # "coroutine"

\* Mutant: the lock is consulted but the requests are let through.
LockBusy_Never == FALSE

\* _ingest_lock.locked()
LockBusy == ingestLocked

\* Mutant: the pipeline runs without taking the lock.
LockAfterEntry_NotTaken == ingestLocked

\* State of _ingest_lock after `async with _ingest_lock` is entered.
LockAfterEntry == TRUE

\* ingest_audio, step 6: the HTTP status and code for a pipeline result.
\* For `success` and `duplicate` the handler builds the IngestResponse from
\* result.title and result.artist; IngestResult has no such fields, the
\* AttributeError reaches the global exception handler of main.py, and the
\* answer is 500 INTERNAL_ERROR.
IngestHttp(status, err, tid) ==
    IF status = "error"
    THEN IF err = "too short" THEN <<400, "AUDIO_TOO_SHORT">>
         ELSE IF err = "too long" THEN <<400, "AUDIO_TOO_LONG">>
         ELSE IF err = "decode" THEN <<400, "UNSUPPORTED_FORMAT">>
         ELSE <<503, "SERVICE_UNAVAILABLE">>
    ELSE IF status = "skipped"
    THEN IF err = "too short" THEN <<400, "AUDIO_TOO_SHORT">>
         ELSE IF err = "too long" THEN <<400, "AUDIO_TOO_LONG">>
         ELSE <<400, "VALIDATION_ERROR">>
    ELSE IF tid = NoId THEN <<503, "SERVICE_UNAVAILABLE">>
    ELSE <<500, "INTERNAL_ERROR">>

\* The request is inside ingest_file.
InPipeline(r) == ipc[r] \in {"hash_check", "decode", "gather", "commit"}

\* Mutant: the lock stays taken when the block is left.
LockAfterExit_Held == ingestLocked

\* State of _ingest_lock after `async with _ingest_lock` is left, by return
\* or by exception.
LockAfterExit == FALSE

\* ingest_file returns (status, err, tid); ingest_audio leaves the async
\* with block (the lock is released), unlinks the temp file in its finally
\* and maps the result to the HTTP answer.  No await lies in between.
Return(r, status, err, tid) ==
    /\ ipc' = [ipc EXCEPT ![r] = "done"]
    /\ iStatus' = [iStatus EXCEPT ![r] = status]
    /\ iError' = [iError EXCEPT ![r] = err]
    /\ iTrackId' = [iTrackId EXCEPT ![r] = tid]
    /\ ingestLocked' = LockAfterExit
    /\ iTmp' = [iTmp EXCEPT ![r] = FALSE]
    /\ iHttp' = [iHttp EXCEPT ![r] = IngestHttp(status, err, tid)[1]]
    /\ iHttpCode' = [iHttpCode EXCEPT ![r] = IngestHttp(status, err, tid)[2]]

IngestInit ==
    /\ tracks \in {{}, {StoredTrack}}
    /\ canonical = {t.file_hash_sha256 : t \in tracks}
    /\ olafIndex = {t.id : t \in tracks}
    /\ qdrantPoints = {t.id : t \in tracks}
    /\ ingestLocked = FALSE
    /\ ipc = [r \in IngestReqs |-> "new"]
    /\ iUpload = [r \in IngestReqs |-> "none"]
    /\ iTmp = [r \in IngestReqs |-> FALSE]
    /\ iStatus = [r \in IngestReqs |-> "pending"]
    /\ iError = [r \in IngestReqs |-> ""]
    /\ iTrackId = [r \in IngestReqs |-> NoId]
    /\ iMinted = [r \in IngestReqs |-> NoId]
    /\ chromaPc = [r \in IngestReqs |-> "none"]
    /\ olafPc = [r \in IngestReqs |-> "none"]
    /\ olafOk = [r \in IngestReqs |-> FALSE]
    /\ olafTmp = [r \in IngestReqs |-> FALSE]
    /\ embCount = [r \in IngestReqs |-> 0]
    /\ iWork = [r \in IngestReqs |-> {}]
    /\ iHttp = [r \in IngestReqs |-> 0]
    /\ iHttpCode = [r \in IngestReqs |-> ""]

\* embedding_task: len(chunks) of generate_chunked_embeddings, two chunks
\* for the 10 s song; 0 when it raises, as it does without a model.  The
\* coroutine upsert_track_embeddings returns is bound to `count` and never
\* awaited, so no point reaches the vector store.
EmbeddingCount(raises) == IF clapLoaded /\ ~raises THEN 2 ELSE 0

\* Mutant: step 7 waits for the content dedup only.
SubtasksDone_ChromaOnly(r) == chromaPc[r] = "done"

\* asyncio.gather has the result of every subtask.
SubtasksDone(r) == chromaPc[r] = "done" /\ olafPc[r] = "done"

\* The Track that step 7 builds and adds to the session (0: None).
TrackRow(r) ==
    [id |-> iMinted[r],
     file_hash_sha256 |-> FileHash(iUpload[r]),
     chromaprint_fingerprint |-> ChromaprintValue(iUpload[r]),
     chromaprint_duration |-> Duration(iUpload[r]),
     olaf_indexed |-> olafOk[r],
     embedding_dim |-> IF embCount[r] > 0 THEN 512 ELSE 0]

\* Mutant: the failed transaction leaves its row behind.
RolledBack_RowKept(rows, row) == rows \cup {row}

\* The rows of the store after session.commit() raised: the session block
\* is left by the exception and the pending row is discarded.
RolledBack(rows, row) == rows

\* A request with upload u reaches ingest_audio, which awaits audio.read().
IngestArrive(r, u) ==
    /\ ipc[r] = "new"
    /\ ipc' = [ipc EXCEPT ![r] = "read"]
    /\ iUpload' = [iUpload EXCEPT ![r] = u]
    /\ UNCHANGED <<tracks, canonical, olafIndex, qdrantPoints, ingestLocked,
                   iTmp, iStatus, iError, iTrackId, iMinted, chromaPc, olafPc,
                   olafOk, olafTmp, embCount, iWork, iHttp, iHttpCode>>
    /\ UNCHANGED searchVars
    /\ UNCHANGED scoreVars

\* ingest_audio from the return of audio.read() to its next suspension:
\* validation (400), temp file, lock check (429: temp file unlinked), or
\* lock taken and ingest_file run up to `await check_file_duplicate`.
IngestAdmit(r) ==
    /\ ipc[r] = "read"
    /\ IF ValidateUpload(iUpload[r]) # "ok"
       THEN /\ ipc' = [ipc EXCEPT ![r] = "done"]
            /\ iHttp' = [iHttp EXCEPT ![r] = 400]
            /\ iHttpCode' = [iHttpCode EXCEPT ![r] = ValidateUpload(iUpload[r])]
            /\ UNCHANGED <<ingestLocked, iTmp, iWork>>
       ELSE IF LockBusy
       THEN /\ ipc' = [ipc EXCEPT ![r] = "done"]
            /\ iHttp' = [iHttp EXCEPT ![r] = 429]
            /\ iHttpCode' = [iHttpCode EXCEPT ![r] = "RATE_LIMITED"]
            /\ UNCHANGED <<ingestLocked, iTmp, iWork>>
       ELSE /\ ingestLocked' = LockAfterEntry
            /\ iTmp' = [iTmp EXCEPT ![r] = TRUE]
            /\ ipc' = [ipc EXCEPT ![r] = "hash_check"]
            /\ iWork' = [iWork EXCEPT ![r] = {"hash", "dedup_lookup"}]
            /\ UNCHANGED <<iHttp, iHttpCode>>
    /\ UNCHANGED <<tracks, canonical, olafIndex, qdrantPoints, iUpload, iStatus,
                   iError, iTrackId, iMinted, chromaPc, olafPc, olafOk, olafTmp,
                   embCount>>
    /\ UNCHANGED searchVars
    /\ UNCHANGED scoreVars

\* check_file_duplicate answers.  A row with the hash: `duplicate` with its
\* id.  None: step 3 copies the upload to the canonical store, step 4 reads
\* the tags, step 5 awaits decode_dual_rate.
IngestHashChecked(r) ==
    /\ ipc[r] = "hash_check"
    /\ IF check_file_duplicate(FileHash(iUpload[r])) # {}
       THEN /\ \E id \in check_file_duplicate(FileHash(iUpload[r])) :
                   Return(r, "duplicate", "", id)
            /\ UNCHANGED <<canonical, iWork>>
       ELSE /\ canonical' = canonical \cup {FileHash(iUpload[r])}
            /\ iWork' = [iWork EXCEPT ![r] = @ \cup {"copy", "decode"}]
            /\ ipc' = [ipc EXCEPT ![r] = "decode"]
            /\ UNCHANGED <<ingestLocked, iTmp, iStatus, iError, iTrackId, iHttp,
                           iHttpCode>>
    /\ UNCHANGED <<tracks, olafIndex, qdrantPoints, iUpload, iMinted, chromaPc,
                   olafPc, olafOk, olafTmp, embCount>>
    /\ UNCHANGED searchVars
    /\ UNCHANGED scoreVars

\* olaf_index_track has bound tmp_path: the assignment follows tmp.write
\* inside the with block, so a write that raises leaves tmp_path None.
TmpPathKnown(written) == written

\* The .raw file after the finally block of olaf_index_track: unlinked when
\* tmp_path is bound, left where it is when tmp_path is None.
FileAfterCleanup(known) == ~known

\* decode_dual_rate answers.  AudioDecodeError: `error`.  Duration outside
\* [3 s, 1800 s]: `skipped`.  Otherwise step 6: a uuid is minted and
\* asyncio.gather starts the three subtasks; chromaprint_task runs to its
\* SELECT; olaf_task creates the .raw temp file and writes the PCM to it,
\* then awaits the olaf_c store child, or the write raises, the function
\* leaves through its finally block and the task returns False; and
\* embedding_task, which never awaits, runs to its end.
IngestDecoded(r) ==
    /\ ipc[r] = "decode"
    /\ IF DecodeFails(iUpload[r])
       THEN /\ Return(r, "error", "decode", NoId)
            /\ UNCHANGED <<iMinted, chromaPc, olafPc, olafTmp, embCount, iWork>>
       ELSE IF Duration(iUpload[r]) < MIN_INGESTION_DURATION
       THEN /\ Return(r, "skipped", "too short", NoId)
            /\ UNCHANGED <<iMinted, chromaPc, olafPc, olafTmp, embCount, iWork>>
       ELSE IF Duration(iUpload[r]) > MAX_INGESTION_DURATION
       THEN /\ Return(r, "skipped", "too long", NoId)
            /\ UNCHANGED <<iMinted, chromaPc, olafPc, olafTmp, embCount, iWork>>
       ELSE /\ iMinted' = [iMinted EXCEPT ![r] = MintedId(r)]
            /\ chromaPc' = [chromaPc EXCEPT ![r] = "db"]
            /\ \E written \in BOOLEAN :
                   IF written
                   THEN /\ olafPc' = [olafPc EXCEPT ![r] = "proc"]
                        /\ olafTmp' = [olafTmp EXCEPT ![r] = TRUE]
                   ELSE /\ olafPc' = [olafPc EXCEPT ![r] = "done"]
                        /\ olafTmp' = [olafTmp EXCEPT ![r] =
                               FileAfterCleanup(TmpPathKnown(written))]
            /\ \E raises \in BOOLEAN :
                   embCount' = [embCount EXCEPT ![r] = EmbeddingCount(raises)]
            /\ iWork' = [iWork EXCEPT ![r] = @ \cup {"index"}]
            /\ ipc' = [ipc EXCEPT ![r] = "gather"]
            /\ UNCHANGED <<ingestLocked, iTmp, iStatus, iError, iTrackId, iHttp,
                           iHttpCode>>
    /\ UNCHANGED <<tracks, canonical, olafIndex, qdrantPoints, iUpload, olafOk>>
    /\ UNCHANGED searchVars
    /\ UNCHANGED scoreVars

\* The SELECT of check_content_duplicate answers inside chromaprint_task.
\* With candidate rows, _fingerprint_similarity is handed the coroutine
\* object and raises AttributeError: gather re-raises it at once, ingest_file
\* returns `error`, and the other subtasks are left running.  Without
\* candidates the task returns ("ok", None, fingerprint).
ChromaReturn(r) ==
    /\ chromaPc[r] = "db"
    /\ chromaPc' = [chromaPc EXCEPT ![r] = "done"]
    /\ IF ContentCandidates(Duration(iUpload[r])) # {}
             /\ ~Storable(ChromaprintValue(iUpload[r]))
       THEN Return(r, "error", "unexpected", NoId)
       ELSE UNCHANGED <<ipc, iStatus, iError, iTrackId, ingestLocked, iTmp, iHttp,
                        iHttpCode>>
    /\ UNCHANGED <<tracks, canonical, olafIndex, qdrantPoints, iUpload, iMinted,
                   olafPc, olafOk, olafTmp, embCount, iWork>>
    /\ UNCHANGED searchVars
    /\ UNCHANGED scoreVars

\* The olaf_c store child of olaf_task exits: exit code 0 has written the
\* track into the fingerprint store, any other code has not (nor has a
\* child that could not be started).  olaf_index_track leaves through its
\* finally block, where tmp_path is bound.
OlafReturn(r) ==
    /\ olafPc[r] = "proc"
    /\ olafPc' = [olafPc EXCEPT ![r] = "done"]
    /\ \E ok \in BOOLEAN :
          /\ olafOk' = [olafOk EXCEPT ![r] = ok]
          /\ olafIndex' = IF ok THEN olafIndex \cup {iMinted[r]} ELSE olafIndex
    /\ olafTmp' = [olafTmp EXCEPT ![r] = FileAfterCleanup(TmpPathKnown(TRUE))]
    /\ UNCHANGED <<tracks, canonical, qdrantPoints, ingestLocked, ipc, iUpload,
                   iTmp, iStatus, iError, iTrackId, iMinted, chromaPc, embCount,
                   iWork, iHttp, iHttpCode>>
    /\ UNCHANGED searchVars
    /\ UNCHANGED scoreVars

\* gather returns with all three results; chroma_status is "ok", so step 7
\* builds the Track, adds it to the session and awaits commit.
GatherDone(r) ==
    /\ ipc[r] = "gather"
    /\ SubtasksDone(r)
    /\ ipc' = [ipc EXCEPT ![r] = "commit"]
    /\ iWork' = [iWork EXCEPT ![r] = @ \cup {"insert"}]
    /\ UNCHANGED <<tracks, canonical, olafIndex, qdrantPoints, ingestLocked,
                   iUpload, iTmp, iStatus, iError, iTrackId, iMinted, chromaPc,
                   olafPc, olafOk, olafTmp, embCount, iHttp, iHttpCode>>
    /\ UNCHANGED searchVars
    /\ UNCHANGED scoreVars

\* session.commit() answers: the row is stored and the run is a `success`,
\* or the driver rejects a value and the run is an `error`.
CommitReturn(r) ==
    /\ ipc[r] = "commit"
    /\ IF Storable(ChromaprintValue(iUpload[r]))
       THEN /\ tracks' = tracks \cup {TrackRow(r)}
            /\ Return(r, "success", "", iMinted[r])
       ELSE /\ Return(r, "error", "unexpected", NoId)
            /\ tracks' = RolledBack(tracks, TrackRow(r))
    /\ UNCHANGED <<canonical, olafIndex, qdrantPoints, iUpload, iMinted, chromaPc,
                   olafPc, olafOk, olafTmp, embCount, iWork>>
    /\ UNCHANGED searchVars
    /\ UNCHANGED scoreVars

\* The task of the request is cancelled at the await where ingest_file is
\* suspended.  CancelledError is not an Exception: ingest_file does not
\* catch it, the async with block releases the lock and the finally block
\* unlinks the temp file; no answer is sent.  A gather that is cancelled
\* cancels its subtasks: olaf_index_track unlinks its .raw file in its
\* finally block; its olaf_c child is not stopped by that.
IngestCancel(r) ==
    /\ InPipeline(r)
    /\ ipc' = [ipc EXCEPT ![r] = "cancelled"]
    /\ ingestLocked' = LockAfterExit
    /\ iTmp' = [iTmp EXCEPT ![r] = FALSE]
    /\ chromaPc' = [chromaPc EXCEPT ![r] = IF @ = "db" THEN "cancelled" ELSE @]
    /\ olafTmp' = [olafTmp EXCEPT ![r] =
           IF olafPc[r] = "proc" THEN FileAfterCleanup(TmpPathKnown(TRUE)) ELSE @]
    /\ UNCHANGED <<tracks, canonical, olafIndex, qdrantPoints, iUpload, iStatus,
                   iError, iTrackId, iMinted, olafPc, olafOk, embCount, iWork,
                   iHttp, iHttpCode>>
    /\ UNCHANGED searchVars
    /\ UNCHANGED scoreVars

IngestNext ==
    \/ \E r \in IngestReqs, u \in Uploads : IngestArrive(r, u)
    \/ \E r \in IngestReqs : IngestAdmit(r)
    \/ \E r \in IngestReqs : IngestHashChecked(r)
    \/ \E r \in IngestReqs : IngestDecoded(r)
    \/ \E r \in IngestReqs : ChromaReturn(r)
    \/ \E r \in IngestReqs : OlafReturn(r)
    \/ \E r \in IngestReqs : GatherDone(r)
    \/ \E r \in IngestReqs : CommitReturn(r)
    \/ \E r \in IngestReqs : IngestCancel(r)

(***************************************************************************)
(* Scoring of the exact lane in sub-window mode (search/exact.py)          *)
(***************************************************************************)
\* Longest list of matches one olaf_query answer carries.
MaxMatches == 2

\* OlafMatch values: reference_path and match_count.  "x" is a path that is
\* not a UUID.
OlafMatches ==
    {[reference_path |-> "t1", match_count |-> 1],
     [reference_path |-> "t1", match_count |-> 16],
     [reference_path |-> "t2", match_count |-> 3],
     [reference_path |-> "x", match_count |-> 16]}

\* The answers olaf_query can give for one window.
MatchLists ==
    UNION {[1 .. n -> OlafMatches] : n \in 0 .. MaxMatches}

\* uuid.UUID(ref_path) does not raise ValueError.
IsUuid(ref) == ref # "x"

\* The matches of ms with reference path ref, summed by match_count.
RECURSIVE SumMatchCount(_, _)
SumMatchCount(ms, ref) ==
    IF ms = << >> THEN 0
    ELSE (IF Head(ms).reference_path = ref THEN Head(ms).match_count ELSE 0)
         + SumMatchCount(Tail(ms), ref)

\* total_hashes: sum(m.match_count for _, m in window_matches)
RECURSIVE TotalHashes(_, _)
TotalHashes(ws, ref) ==
    IF ws = << >> THEN 0
    ELSE SumMatchCount(Head(ws), ref) + TotalHashes(Tail(ws), ref)

\* unique_windows: the indices of the windows with a match of ref.
UniqueWindows(ws, ref) ==
    {i \in 1 .. Len(ws) :
        \E j \in 1 .. Len(ws[i]) : ws[i][j].reference_path = ref}

\* Mutant: a single-window match keeps its full sum.
AlignedHashes_NoPenalty(num_windows, total_hashes) == total_hashes

\* aligned_hashes of a candidate: total_hashes with two or more windows,
\* max(total_hashes // 2, 1) with one.
AlignedHashes(num_windows, total_hashes) ==
    IF num_windows >= 2 THEN total_hashes
    ELSE IF total_hashes \div 2 > 1 THEN total_hashes \div 2 ELSE 1

\* _consensus_score: one candidate per reference path that is a UUID.
consensus_score(ws) ==
    {[track_uuid |-> ref,
      aligned_hashes |-> AlignedHashes(Cardinality(UniqueWindows(ws, ref)),
                                       TotalHashes(ws, ref))] :
        ref \in {x \in {m.reference_path : m \in OlafMatches} :
                    UniqueWindows(ws, x) # {} /\ IsUuid(x)}}

\* _matches_to_candidates (full-clip mode): one candidate per reference path
\* that is a UUID, with the sum of its match counts.
matches_to_candidates(ms) ==
    {[track_uuid |-> ref, aligned_hashes |-> SumMatchCount(ms, ref)] :
        ref \in {x \in {m.reference_path : m \in OlafMatches} :
                    IsUuid(x) /\ \E j \in 1 .. Len(ms) : ms[j].reference_path = x}}

MIN_ALIGNED_HASHES == 8

STRONG_MATCH_HASHES == 20

\* max_results of a request (the router admits 1 to 50).
MaxResultsValues == {1, 2}

\* Ids of the Track rows the relational store can hold at lookup time.
StoreContents == SUBSET {"t1", "t2"}

\* Mutant: the confidence is the bare ratio.
normalize_confidence_Unclamped(aligned_hashes) ==
    (100 * aligned_hashes) \div STRONG_MATCH_HASHES

\* _normalize_confidence, in hundredths:
\* min(aligned_hashes / STRONG_MATCH_HASHES, 1.0), 0.0 for a count <= 0.
normalize_confidence(aligned_hashes) ==
    IF aligned_hashes <= 0 THEN 0
    ELSE IF (100 * aligned_hashes) \div STRONG_MATCH_HASHES < 100
    THEN (100 * aligned_hashes) \div STRONG_MATCH_HASHES
    ELSE 100

\* The windows' matches one after the other.
RECURSIVE Flatten(_)
Flatten(ws) == IF ws = << >> THEN << >> ELSE Head(ws) \o Flatten(Tail(ws))

\* Keys of a dict filled in the order of ms: each reference path once, in
\* the order of its first match.
RECURSIVE InsertionOrder(_, _)
InsertionOrder(ms, seen) ==
    IF ms = << >> THEN << >>
    ELSE IF Head(ms).reference_path \in seen
    THEN InsertionOrder(Tail(ms), seen)
    ELSE <<Head(ms).reference_path>>
         \o InsertionOrder(Tail(ms), seen \cup {Head(ms).reference_path})

\* The candidates as the list the scoring function built, one per key.
RECURSIVE CandidateList(_, _)
CandidateList(order, cands) ==
    IF order = << >> THEN << >>
    ELSE (IF \E c \in cands : c.track_uuid = Head(order)
          THEN <<CHOOSE c \in cands : c.track_uuid = Head(order)>>
          ELSE << >>)
         \o CandidateList(Tail(order), cands)

\* s is sorted by key descending; p goes behind every pair whose key is not
\* smaller (list.sort is stable, also with reverse=True).
RECURSIVE InsertDesc(_, _)
InsertDesc(s, p) ==
    IF s = << >> THEN <<p>>
    ELSE IF Head(s)[1] >= p[1] THEN <<Head(s)>> \o InsertDesc(Tail(s), p)
    ELSE <<p>> \o s

\* Mutant: the list is left in the order it was built.
SortDesc_Unsorted(ps, acc) == acc \o ps

\* list.sort(key=..., reverse=True) of <<key, item>> pairs.
RECURSIVE SortDesc(_, _)
SortDesc(ps, acc) ==
    IF ps = << >> THEN acc
    ELSE SortDesc(Tail(ps), InsertDesc(acc, Head(ps)))

\* Mutant: the list is returned whole.
Truncate_Whole(xs, n) == xs

\* xs[:n] for n >= 0.
Truncate(xs, n) == SubSeq(xs, 1, IF n < Len(xs) THEN n ELSE Len(xs))

\* run_exact_lane from the threshold filter to the truncation: candidates of
\* at least MIN_ALIGNED_HASHES get their confidence, are sorted by it
\* descending and cut to max_results.
RankExact(cs, max_results) ==
    LET filtered == SelectSeq(cs, LAMBDA c : c.aligned_hashes >= MIN_ALIGNED_HASHES)
        keyed == [i \in 1 .. Len(filtered) |->
                    <<normalize_confidence(filtered[i].aligned_hashes),
                      [track_uuid |-> filtered[i].track_uuid,
                       aligned_hashes |-> filtered[i].aligned_hashes,
                       confidence |->
                           normalize_confidence(filtered[i].aligned_hashes)]>>]
        sorted == SortDesc(keyed, << >>)
    IN  Truncate([i \in 1 .. Len(sorted) |-> sorted[i][2]], max_results)

\* Mutant: a candidate without a Track row makes the lookup raise, and the
\* lane returns nothing.
enrich_with_metadata_Strict(cs, found) ==
    IF \A i \in 1 .. Len(cs) : cs[i].track_uuid \in found
    THEN [i \in 1 .. Len(cs) |->
             [track |-> cs[i].track_uuid, confidence |-> cs[i].confidence,
              aligned_hashes |-> cs[i].aligned_hashes]]
    ELSE << >>

\* _enrich_with_metadata: an ExactMatch for every candidate whose Track row
\* was found, in the candidates' order; the others are skipped.
enrich_with_metadata(cs, found) ==
    LET kept == SelectSeq(cs, LAMBDA c : c.track_uuid \in found)
    IN  [i \in 1 .. Len(kept) |->
            [track |-> kept[i].track_uuid, confidence |-> kept[i].confidence,
             aligned_hashes |-> kept[i].aligned_hashes]]

ExactScoreInit ==
    /\ scorePc = "idle"
    /\ window_results = << >>
    /\ candidates = {}
    /\ top_matches = << >>
    /\ exact_tracks_by_id = {}
    /\ exact_matches = << >>

\* The three olaf_query calls of _query_with_subwindows have answered.
SubWindowsAnswered(ws) ==
    /\ scorePc = "idle"
    /\ scorePc' = "windows"
    /\ window_results' = ws
    /\ UNCHANGED <<candidates, top_matches, exact_tracks_by_id, exact_matches>>
    /\ UNCHANGED <<searchVars, ingestVars, vibeScoreVars>>

\* return _consensus_score(window_results)
ConsensusScore ==
    /\ scorePc = "windows"
    /\ scorePc' = "scored"
    /\ candidates' = consensus_score(window_results)
    /\ UNCHANGED <<window_results, top_matches, exact_tracks_by_id, exact_matches>>
    /\ UNCHANGED <<searchVars, ingestVars, vibeScoreVars>>

\* The olaf_query call of _query_full_clip has answered.
FullClipAnswered(ms) ==
    /\ scorePc = "idle"
    /\ vibePc = "idle"
    /\ scorePc' = "full"
    /\ window_results' = <<ms>>
    /\ UNCHANGED <<candidates, top_matches, exact_tracks_by_id, exact_matches>>
    /\ UNCHANGED <<searchVars, ingestVars, vibeScoreVars>>

\* return _matches_to_candidates(matches)
MatchesToCandidates ==
    /\ scorePc = "full"
    /\ scorePc' = "full_scored"
    /\ candidates' = matches_to_candidates(window_results[1])
    /\ UNCHANGED <<window_results, top_matches, exact_tracks_by_id, exact_matches>>
    /\ UNCHANGED <<searchVars, ingestVars, vibeScoreVars>>

\* run_exact_lane with the scored matches in hand: filter, confidence, sort,
\* truncation; nothing left returns [], otherwise _enrich_with_metadata
\* awaits get_tracks_by_ids.  The locals of the query function are gone.
RankAndLimit(max_results) ==
    /\ scorePc \in {"scored", "full_scored"}
    /\ top_matches' =
           RankExact(CandidateList(InsertionOrder(Flatten(window_results), {}),
                                   candidates),
                     max_results)
    /\ scorePc' = IF top_matches' = << >> THEN "returned" ELSE "lookup"
    /\ window_results' = << >>
    /\ UNCHANGED <<candidates, exact_tracks_by_id, exact_matches>>
    /\ UNCHANGED <<searchVars, ingestVars, vibeScoreVars>>

\* get_tracks_by_ids answers with the rows the store holds now; the lane
\* returns the enriched matches.
EnrichReturn(stored) ==
    /\ scorePc = "lookup"
    /\ scorePc' = "returned"
    /\ exact_tracks_by_id' = stored \cap {top_matches[i].track_uuid :
                                            i \in 1 .. Len(top_matches)}
    /\ exact_matches' = enrich_with_metadata(top_matches, exact_tracks_by_id')
    /\ UNCHANGED <<window_results, candidates, top_matches>>
    /\ UNCHANGED <<searchVars, ingestVars, vibeScoreVars>>

(***************************************************************************)
(* Data path of the vibe lane (search/vibe.py, search/aggregation.py)      *)
(***************************************************************************)
\* Longest list of points one query_points answer carries.
MaxPoints == 3

\* A payload field: present with a value of the expected type, absent, or
\* present with a value the conversion rejects.
Ok(v) == [kind |-> "ok", val |-> v]

Missing == [kind |-> "missing", val |-> 0]

Bad == [kind |-> "bad", val |-> 0]

\* Points of the vector store: payload track_id ("missing": no such key,
\* "x": not a UUID), cosine score in hundredths, chunk_index, offset_sec.
PointValues ==
    {[track_id |-> "t1", score |-> 100, chunk_index |-> Ok(0), offset_sec |-> Ok(0)],
     [track_id |-> "t1", score |-> 70, chunk_index |-> Ok(1), offset_sec |-> Ok(5)],
     [track_id |-> "t2", score |-> 65, chunk_index |-> Ok(0), offset_sec |-> Ok(0)],
     [track_id |-> "t2", score |-> 40, chunk_index |-> Ok(1), offset_sec |-> Ok(5)],
     [track_id |-> "missing", score |-> 90, chunk_index |-> Ok(0), offset_sec |-> Ok(0)],
     [track_id |-> "x", score |-> 90, chunk_index |-> Ok(0), offset_sec |-> Ok(0)],
     [track_id |-> "t2", score |-> 90, chunk_index |-> Missing, offset_sec |-> Missing],
     [track_id |-> "t1", score |-> 90, chunk_index |-> Bad, offset_sec |-> Ok(0)]}

\* What client.query_points can do: raise, or answer with points.
Replies ==
    {[error |-> TRUE, points |-> << >>]}
    \cup {[error |-> FALSE, points |-> ps] :
             ps \in UNION {[1 .. n -> PointValues] : n \in 0 .. MaxPoints}}

\* The point passes the track_id checks of _query_qdrant.
HasTrackId(pt) == pt.track_id \notin {"missing", "x"}

\* int(payload.get("chunk_index", 0)) or float(payload.get("offset_sec",
\* 0.0)) raises for the point.
ConversionRaises(pt) ==
    HasTrackId(pt) /\ (pt.chunk_index.kind = "bad" \/ pt.offset_sec.kind = "bad")

\* Mutant: a vector-store error is passed on.
query_qdrant_raises_StoreError(r) ==
    r.error \/ \E i \in 1 .. Len(r.points) : ConversionRaises(r.points[i])

\* _query_qdrant raises: the exception of query_points is caught, the
\* conversions of the payload fields are outside every try.
query_qdrant_raises(r) ==
    \E i \in 1 .. Len(r.points) : ConversionRaises(r.points[i])

\* The ChunkHit of a point: an absent chunk_index or offset_sec is 0.
ChunkHit(pt) ==
    [track_id |-> pt.track_id, score |-> pt.score,
     chunk_index |-> pt.chunk_index.val, offset_sec |-> pt.offset_sec.val]

\* _query_qdrant when it does not raise: no hits after a store error,
\* otherwise a ChunkHit for every point with a UUID track_id.
query_qdrant(r) ==
    LET kept == SelectSeq(r.points, HasTrackId)
    IN  IF r.error THEN << >>
        ELSE [i \in 1 .. Len(kept) |-> ChunkHit(kept[i])]

\* settings.vibe_match_threshold (0.60) in six-hundredths.
vibe_match_threshold == 360

\* top_k_per_track
top_k_per_track == 3

RECURSIVE SumSeq(_)
SumSeq(xs) == IF xs = << >> THEN 0 ELSE Head(xs) + SumSeq(Tail(xs))

\* Keys of track_chunks: each track_id once, in the order of its first hit.
RECURSIVE TrackOrder(_, _)
TrackOrder(hits, seen) ==
    IF hits = << >> THEN << >>
    ELSE IF Head(hits).track_id \in seen THEN TrackOrder(Tail(hits), seen)
    ELSE <<Head(hits).track_id>>
         \o TrackOrder(Tail(hits), seen \cup {Head(hits).track_id})

\* final_score of a track in six-hundredths: the mean of its top_k_per_track
\* scores (hundredths, so 6 * sum / n with n in 1 .. 3) plus the diversity
\* bonus min(unique_offsets / 5, 1) * 0.05.
FinalScore(chunks) ==
    LET scores == SortDesc([i \in 1 .. Len(chunks) |->
                               <<chunks[i].score, chunks[i].score>>], << >>)
        top_k == Truncate([i \in 1 .. Len(scores) |-> scores[i][1]],
                          top_k_per_track)
        unique_offsets ==
            Cardinality({chunks[i].offset_sec : i \in 1 .. Len(chunks)})
    IN  SumSeq(top_k) * (6 \div Len(top_k))
        + 6 * (IF unique_offsets < 5 THEN unique_offsets ELSE 5)

\* Mutant: the exact-match track is aggregated like the others.
Excluded_None(track_id, exact_id) == FALSE

\* aggregate_chunk_hits skips the track.
Excluded(track_id, exact_id) == exact_id # "None" /\ track_id = exact_id

\* aggregate_chunk_hits: a TrackResult per track_id that is not excluded,
\* sorted by final_score descending.
aggregate_chunk_hits(hits, exact_id) ==
    LET order == SelectSeq(TrackOrder(hits, {}),
                           LAMBDA t : ~Excluded(t, exact_id))
        results == [i \in 1 .. Len(order) |->
                      [track_id |-> order[i],
                       final_score |->
                           FinalScore(SelectSeq(hits,
                               LAMBDA h : h.track_id = order[i]))]]
        sorted == SortDesc([i \in 1 .. Len(results) |->
                               <<results[i].final_score, results[i]>>], << >>)
    IN  [i \in 1 .. Len(sorted) |-> sorted[i][2]]

\* Mutant: nothing is dropped for its score.
AboveThreshold_All(rs) == rs

\* [r for r in track_results if r.final_score >= threshold]
AboveThreshold(rs) ==
    SelectSeq(rs, LAMBDA r : r.final_score >= vibe_match_threshold)

\* similarity=min(result.final_score, 1.0), in six-hundredths.
Similarity(final_score) == IF final_score < 600 THEN final_score ELSE 600

\* Step 8 of run_vibe_lane: a VibeMatch for every limited result whose
\* Track row was found, in ranking order.
BuildVibeMatches(rs, found) ==
    LET kept == SelectSeq(rs, LAMBDA r : r.track_id \in found)
    IN  [i \in 1 .. Len(kept) |->
            [track |-> kept[i].track_id,
             similarity |-> Similarity(kept[i].final_score)]]

VibeScoreInit ==
    /\ vibePc = "idle"
    /\ reply = [error |-> FALSE, points |-> << >>]
    /\ chunk_hits = << >>
    /\ exact_match_track_id = "None"
    /\ vibe_max_results = 1
    /\ track_results = << >>
    /\ limited_results = << >>
    /\ vibe_tracks_by_id = {}
    /\ vibe_matches = << >>

ScoreInit == ExactScoreInit /\ VibeScoreInit

\* run_vibe_lane from the answer of query_points to its next suspension:
\* _query_qdrant parses the points (or raises), no hits return [], the hits
\* are aggregated, filtered by the threshold and truncated, nothing left
\* returns [], otherwise the lane awaits _get_tracks_by_ids.
QdrantAnswered(r, max_results, exact_id) ==
    /\ vibePc = "idle"
    /\ reply' = r
    /\ vibe_max_results' = max_results
    /\ exact_match_track_id' = exact_id
    /\ IF query_qdrant_raises(r)
       THEN /\ vibePc' = "raised"
            /\ UNCHANGED <<chunk_hits, track_results, limited_results>>
       ELSE /\ chunk_hits' = query_qdrant(r)
            /\ track_results' = aggregate_chunk_hits(chunk_hits', exact_id)
            /\ limited_results' =
                   Truncate(AboveThreshold(track_results'), max_results)
            /\ vibePc' = IF limited_results' = << >> THEN "returned"
                         ELSE "tracks"
    /\ UNCHANGED <<vibe_tracks_by_id, vibe_matches>>
    /\ UNCHANGED <<searchVars, ingestVars, exactScoreVars>>

\* _get_tracks_by_ids answers with the rows the store holds now; the lane
\* returns its matches.
VibeTracksAnswered(stored) ==
    /\ vibePc = "tracks"
    /\ vibePc' = "returned"
    /\ vibe_tracks_by_id' = stored \cap {limited_results[i].track_id :
                                           i \in 1 .. Len(limited_results)}
    /\ vibe_matches' = BuildVibeMatches(limited_results, vibe_tracks_by_id')
    /\ UNCHANGED <<reply, chunk_hits, exact_match_track_id, vibe_max_results,
                   track_results, limited_results>>
    /\ UNCHANGED <<searchVars, ingestVars, exactScoreVars>>

\* One lane's data path per run: the functions of the exact lane or those
\* of the vibe lane are applied to one input.
ScoreNext ==
    \/ /\ scorePc = "idle"
       /\ vibePc = "idle"
       /\ \E ws \in [1 .. Cardinality(SUB_WINDOWS) -> MatchLists] :
              SubWindowsAnswered(ws)
    \/ ConsensusScore
    \/ \E ms \in MatchLists : FullClipAnswered(ms)
    \/ MatchesToCandidates
    \/ \E n \in MaxResultsValues : RankAndLimit(n)
    \/ \E stored \in StoreContents : EnrichReturn(stored)
    \/ /\ scorePc = "idle"
       /\ vibePc = "idle"
       /\ \E r \in Replies, n \in MaxResultsValues, x \in {"None", "t1"} :
              QdrantAnswered(r, n, x)
    \/ \E stored \in StoreContents : VibeTracksAnswered(stored)

(***************************************************************************)
(* Inference by a search and by ingestions in one process                  *)
(***************************************************************************)
\* A vibe search up to the end of its inference, next to the ingest
\* requests.
GateNext ==
    \/ \E c \in {500} : Dispatch("vibe", c)
    \/ VibeStart
    \/ VibeSemAcquired
    \/ VibeInferReturn
    \/ ThreadFinish
    \/ OtherAcquire
    \/ OtherRelease
    \/ Tick
    \/ LaneTimeout("vibe")
    \/ IngestNext

(***************************************************************************)
(* Specifications                                                          *)
(***************************************************************************)
Init == SearchInit /\ IngestInit /\ ScoreInit

Next == SearchNext \/ IngestNext \/ ScoreNext

Spec == Init /\ [][Next]_vars

\* One search request, the ingest side at rest.
SearchSpec == Init /\ [][SearchNext]_vars

\* Concurrent ingest requests, the search side at rest.
IngestSpec == Init /\ [][IngestNext]_vars

\* The state in which the exact lane's scoring is exercised: model loaded,
\* empty stores.
ScoreStart == Init /\ clapLoaded /\ tracks = {}

\* A search and the ingest requests side by side.
GateSpec == Init /\ [][GateNext]_vars

\* The scoring functions of the exact lane applied to every input, the
\* search and the ingest side at rest.
ScoreSpec == ScoreStart /\ [][ScoreNext]_vars

\* The event loop runs every ready coroutine and fires every due timer:
\* a created lane starts, time passes, an expired wait_for raises, gather
\* returns and the router answers.  Nothing makes a collaborator (olaf_c,
\* the executor thread, the stores, the holders of the semaphore) answer.
FairSearchSpec ==
    /\ SearchSpec
    /\ WF_vars(ExactStart)
    /\ WF_vars(VibeStart)
    /\ WF_vars(Tick)
    /\ \A l \in Lanes : WF_vars(LaneTimeout(l))
    /\ WF_vars(Classify)
    /\ WF_vars(Respond)

(***************************************************************************)
(* Properties of the search orchestrator                                   *)
(***************************************************************************)
Classified == reqState \in {"CLASSIFIED", "TERMINAL"}

Failed(l) == laneOutcome[l] \in {"timeout", "error"}

\* C1: in mode both, each lane is started once and awaited to its own
\* outcome (result, exception or its own timeout) before classification; a
\* lane times out only when its own budget is used up, is never cancelled
\* on behalf of the other lane, and the step in which one lane fails or
\* times out changes neither the position, the outcome nor the clock of
\* the other lane.
C1_OwnOutcome ==
    sMode = "both" =>
        /\ Classified =>
              \A l \in Lanes : /\ laneStarts[l] = 1
                               /\ laneOutcome[l] \in {"result", "timeout", "error"}
        /\ \A l \in Lanes : laneOutcome[l] = "timeout" => laneElapsed[l] = Budget(l)
        /\ \A l \in Lanes : laneOutcome[l] # "cancelled"

C1_FailureStep ==
    sMode = "both" =>
        \A l \in Lanes :
            (laneOutcome[l] = "none" /\ laneOutcome'[l] \in {"timeout", "error"}) =>
                /\ lanePc'[Other(l)] = lanePc[Other(l)]
                /\ laneOutcome'[Other(l)] = laneOutcome[Other(l)]
                /\ laneElapsed'[Other(l)] = laneElapsed[Other(l)]

C1_LanesIndependent == [](C1_OwnOutcome) /\ [][C1_FailureStep]_vars

\* C1 witness: the exact lane timed out at 3 s, the vibe lane went on to
\* its fourth second and returned a result, and the request was answered.
C1_Witness ==
    /\ sMode = "both"
    /\ reqState = "TERMINAL"
    /\ laneOutcome["exact"] = "timeout"
    /\ laneOutcome["vibe"] = "result"
    /\ laneElapsed["vibe"] = VIBE_TIMEOUT_SECONDS

\* C2: in mode both, when exactly one lane failed (raised or timed out) and
\* the other returned, the orchestrator returns a response, the failed
\* lane's array is empty, the other array is the list that lane returned,
\* and the HTTP status is 200.
C2_PartialFailureIs200 ==
    \A l \in Lanes :
        (sMode = "both" /\ Classified /\ Failed(l) /\ laneOutcome[Other(l)] = "result") =>
            /\ orchResult = "response"
            /\ (IF l = "exact" THEN respExact ELSE respVibe) = << >>
            /\ (IF l = "exact" THEN respVibe ELSE respExact) = laneMatches[Other(l)]
            /\ reqState = "TERMINAL" => (httpStatus = 200 /\ httpCode = "")

\* C2 witness: vibe raised, exact returned a non-empty list, answer 200.
C2_Witness ==
    /\ sMode = "both"
    /\ reqState = "TERMINAL"
    /\ laneOutcome["vibe"] = "error"
    /\ laneOutcome["exact"] = "result"
    /\ respExact = <<"t1">>
    /\ respVibe = << >>
    /\ httpStatus = 200

\* C3: in mode both, when both lanes timed out the orchestrator raises
\* SearchTimeoutError and the HTTP answer is 504 SEARCH_TIMEOUT.
C3_BothTimeoutIs504 ==
    (sMode = "both" /\ Classified
        /\ laneOutcome["exact"] = "timeout" /\ laneOutcome["vibe"] = "timeout") =>
            /\ orchResult = "SearchTimeoutError"
            /\ reqState = "TERMINAL" => (httpStatus = 504 /\ httpCode = "SEARCH_TIMEOUT")

C3_Witness ==
    /\ sMode = "both"
    /\ reqState = "TERMINAL"
    /\ laneOutcome["exact"] = "timeout"
    /\ laneOutcome["vibe"] = "timeout"
    /\ httpStatus = 504

\* C4: in mode both, when both lanes failed and they are not both timeouts,
\* the orchestrator raises SearchUnavailableError.
C4_BothFailIsUnavailable ==
    (sMode = "both" /\ Classified /\ Failed("exact") /\ Failed("vibe")
        /\ ~(laneOutcome["exact"] = "timeout" /\ laneOutcome["vibe"] = "timeout")) =>
            orchResult = "SearchUnavailableError"

\* C4 witness: one timeout together with one other exception.
C4_Witness ==
    /\ sMode = "both"
    /\ Classified
    /\ laneOutcome["exact"] = "timeout"
    /\ laneOutcome["vibe"] = "error"
    /\ orchResult = "SearchUnavailableError"

\* C5: in a single-lane mode a timeout of the lane gives SearchTimeoutError,
\* any other exception gives SearchUnavailableError, and a response is
\* returned only when the lane returned normally.
C5_SingleLaneClassification ==
    (sMode \in {"exact", "vibe"} /\ Classified) =>
        /\ laneOutcome[sMode] = "timeout" => orchResult = "SearchTimeoutError"
        /\ laneOutcome[sMode] = "error" => orchResult = "SearchUnavailableError"
        /\ orchResult = "response" => laneOutcome[sMode] = "result"
        /\ orchResult # "none"

C5_Witness ==
    /\ sMode = "exact"
    /\ Classified
    /\ laneOutcome["exact"] = "error"
    /\ orchResult = "SearchUnavailableError"

\* C6: a request moves READY -> DISPATCHED -> CLASSIFIED -> TERMINAL and
\* never otherwise; each requested lane is started exactly once and no
\* other lane is started; the orchestrator's outcome, once set, never
\* changes; and every dispatched request eventually reaches TERMINAL with
\* an answer, whatever the lanes' collaborators do.
C6_Order ==
    reqState' # reqState =>
        <<reqState, reqState'>> \in {<<"READY", "DISPATCHED">>,
                                     <<"DISPATCHED", "CLASSIFIED">>,
                                     <<"CLASSIFIED", "TERMINAL">>}

C6_StartedOnce ==
    /\ \A l \in Lanes :
          laneStarts[l] = IF l \in Requested(sMode) THEN 1 ELSE 0
    /\ reqState = "TERMINAL" =>
          /\ orchResult \in {"response", "SearchTimeoutError", "SearchUnavailableError"}
          /\ httpStatus \in {200, 503, 504}
          /\ \A l \in Requested(sMode) : lanePc[l] = "done"

C6_OneOutcome ==
    /\ orchResult # "none" => orchResult' = orchResult
    /\ httpStatus # 0 => httpStatus' = httpStatus

C6_RequestLifecycle ==
    /\ [][C6_Order]_vars
    /\ [](C6_StartedOnce)
    /\ [][C6_OneOutcome]_vars
    /\ ((reqState = "DISPATCHED") ~> (reqState = "TERMINAL"))

\* C6 witness: a vibe-only request whose lane never returned on its own
\* ended with the timeout answer.
C6_Witness ==
    /\ sMode = "vibe"
    /\ reqState = "TERMINAL"
    /\ laneOutcome["vibe"] = "timeout"
    /\ laneStarts["vibe"] = 1
    /\ httpStatus = 504

\* Work of a lane that runs outside its coroutine.
WorkRunning(l) == IF l = "exact" THEN procRunning ELSE threadRunning

\* C7: once a lane has exceeded its budget (3 s exact, 4 s vibe) none of
\* its work is still running: no olaf_c query child of the exact lane and
\* no generate_embedding thread of the vibe lane.
C7_TimeoutStopsLaneWork ==
    \A l \in Lanes : laneOutcome[l] = "timeout" => ~WorkRunning(l)

(***************************************************************************)
(* Properties of the ingest endpoint                                       *)
(***************************************************************************)
\* A row of the relational store carries the hash of r's upload.
HashStored(r) ==
    \E t \in tracks : t.file_hash_sha256 = FileHash(iUpload[r])

\* C8: at most one request is inside ingest_file at any instant, whatever
\* the interleaving of the concurrent ingest requests.
C8_OnePipelineAtATime ==
    Cardinality({r \in IngestReqs : InPipeline(r)}) <= 1

\* C8 witness: one request is in the pipeline while another, with a valid
\* upload, is about to look at the lock.
C8_Witness ==
    \E r1, r2 \in IngestReqs :
        /\ r1 # r2
        /\ InPipeline(r1)
        /\ ipc[r2] = "read"
        /\ ValidateUpload(iUpload[r2]) = "ok"

\* C9: a request that comes to the lock while another ingestion holds it is
\* answered 429 RATE_LIMITED in that very step (it never waits), and no
\* pipeline step is begun for it: no hashing, lookup, copy, decode, indexing
\* or insert, no store is touched, and its temp file is gone.
C9_Rejected ==
    \A r \in IngestReqs :
        iHttp[r] = 429 =>
            /\ iHttpCode[r] = "RATE_LIMITED"
            /\ ipc[r] = "done"
            /\ iWork[r] = {}
            /\ iStatus[r] = "pending"
            /\ iMinted[r] = NoId
            /\ ~iTmp[r]

C9_ContendedStep ==
    \A r \in IngestReqs :
        (/\ ipc[r] = "read"
         /\ ValidateUpload(iUpload[r]) = "ok"
         /\ ingestLocked
         /\ ipc'[r] # ipc[r]) =>
            /\ ipc'[r] = "done"
            /\ iHttp'[r] = 429
            /\ iWork'[r] = {}
            /\ UNCHANGED <<tracks, canonical, olafIndex, qdrantPoints, ingestLocked>>

C9_Contended429 == [](C9_Rejected) /\ [][C9_ContendedStep]_vars

\* C9 witness: a request was answered 429 while another is in the pipeline.
C9_Witness ==
    \E r1, r2 \in IngestReqs :
        /\ InPipeline(r1)
        /\ iHttp[r2] = 429
        /\ iHttpCode[r2] = "RATE_LIMITED"

\* C10: when the hash lookup of a run answers and a Track with the upload's
\* SHA-256 exists, the run returns `duplicate` with that Track's id and the
\* step changes no store; a `duplicate` run has begun nothing but the hash
\* and the lookup: no copy, no decode, no uuid, no subtask, no insert.
C10_DuplicateStep ==
    \A r \in IngestReqs :
        (/\ ipc[r] = "hash_check"
         /\ ipc'[r] \notin {ipc[r], "cancelled"}
         /\ HashStored(r)) =>
            /\ ipc'[r] = "done"
            /\ iStatus'[r] = "duplicate"
            /\ \E t \in tracks : /\ t.file_hash_sha256 = FileHash(iUpload[r])
                                 /\ iTrackId'[r] = t.id
            /\ UNCHANGED <<tracks, canonical, olafIndex, qdrantPoints>>

C10_DuplicateFootprint ==
    \A r \in IngestReqs :
        iStatus[r] = "duplicate" =>
            /\ iWork[r] = {"hash", "dedup_lookup"}
            /\ iMinted[r] = NoId
            /\ chromaPc[r] = "none"
            /\ olafPc[r] = "none"

C10_HashDuplicateNoEffects ==
    [](C10_DuplicateFootprint) /\ [][C10_DuplicateStep]_vars

\* C10 witness: songA is uploaded while its Track is stored; the run ended
\* `duplicate` with the stored id.
C10_Witness ==
    \E r \in IngestReqs :
        /\ iUpload[r] = "songA"
        /\ iStatus[r] = "duplicate"
        /\ iTrackId[r] = StoredTrack.id

(***************************************************************************)
(* Properties of the ingestion pipeline                                    *)
(***************************************************************************)
\* The upload passes the handler's validation, decodes, and lasts between
\* MIN_INGESTION_DURATION and MAX_INGESTION_DURATION.
ValidFile(u) ==
    /\ u \in Uploads
    /\ ValidateUpload(u) = "ok"
    /\ ~DecodeFails(u)
    /\ Duration(u) >= MIN_INGESTION_DURATION
    /\ Duration(u) <= MAX_INGESTION_DURATION

\* r's upload is new by its bytes and a stored Track carries its fingerprint.
ContentDuplicate(r) ==
    /\ ValidFile(iUpload[r])
    /\ ~HashStored(r)
    /\ \E t \in ContentCandidates(Duration(iUpload[r])) :
           t.chromaprint_fingerprint = FpcalcOutput(iUpload[r])

\* The run of r went through ingest_file and came back.
Returned(r) == ipc[r] = "done" /\ iStatus[r] # "pending"

\* C11: the content dedup of a run has completed before anything is written
\* for that run to the fingerprint store or to the vector store: an entry
\* under the run's minted id implies that its dedup has answered.
C11_DedupBeforeIndexWrites ==
    \A r \in IngestReqs :
        (iMinted[r] \in olafIndex \/ iMinted[r] \in qdrantPoints) =>
            chromaPc[r] = "done"

\* C12: a run whose upload is a content duplicate returns `duplicate` and
\* leaves no canonical file for the upload's hash.
C12_ContentDuplicateFileRemoved ==
    \A r \in IngestReqs :
        (Returned(r) /\ ContentDuplicate(r)) =>
            /\ iStatus[r] = "duplicate"
            /\ FileHash(iUpload[r]) \notin canonical

\* C13: a run whose decoded duration lies outside [3 s, 1800 s] returns
\* `skipped` with a reason and the canonical store holds no file for it.
C13_SkippedWritesNoFile ==
    \A r \in IngestReqs :
        (/\ Returned(r)
         /\ ~DecodeFails(iUpload[r])
         /\ \/ Duration(iUpload[r]) < MIN_INGESTION_DURATION
            \/ Duration(iUpload[r]) > MAX_INGESTION_DURATION) =>
            /\ iStatus[r] = "skipped"
            /\ iError[r] # ""
            /\ FileHash(iUpload[r]) \notin canonical

\* C14: a run whose decode fails returns `error` and afterwards the
\* canonical store holds no file for its input.
C14_DecodeErrorRemovesFile ==
    \A r \in IngestReqs :
        (Returned(r) /\ DecodeFails(iUpload[r])) =>
            /\ iStatus[r] = "error"
            /\ FileHash(iUpload[r]) \notin canonical

\* C15: a run that reached step 7 after its fingerprint-store write failed
\* returns `success`, and its Track row is stored with olaf_indexed false.
C15_OlafFailureContinues ==
    \A r \in IngestReqs :
        (Returned(r) /\ "insert" \in iWork[r] /\ ~olafOk[r]) =>
            /\ iStatus[r] = "success"
            /\ \E t \in tracks : t.id = iMinted[r] /\ ~t.olaf_indexed

\* C16: a run that reached step 7 after its embedding subtask failed
\* returns `success`, and its Track row is stored with embedding_dim null.
C16_EmbeddingFailureContinues ==
    \A r \in IngestReqs :
        (Returned(r) /\ "insert" \in iWork[r] /\ embCount[r] = 0) =>
            /\ iStatus[r] = "success"
            /\ \E t \in tracks : t.id = iMinted[r] /\ t.embedding_dim = 0

\* C17: once the insert of the Track row of a run has begun, both of its
\* indexing subtasks and its content dedup have completed: no index write
\* of the run is still in progress or yet to start.
C17_InsertAfterSubtasks ==
    \A r \in IngestReqs :
        "insert" \in iWork[r] =>
            /\ chromaPc[r] = "done"
            /\ olafPc[r] = "done"

\* C17 witness: a run is at its commit with the fingerprint-store write
\* made and the chunks embedded.
C17_Witness ==
    \E r \in IngestReqs :
        /\ ipc[r] = "commit"
        /\ olafOk[r]
        /\ iMinted[r] \in olafIndex
        /\ embCount[r] > 0

C20_IngestedThenDuplicate ==
    \A r \in IngestReqs :
        (Returned(r) /\ ValidFile(iUpload[r])) =>
            /\ iHttp[r] = 201
            /\ iHttpCode[r] \in {"ingested", "duplicate"}
            /\ Cardinality({t \in tracks :
                   t.file_hash_sha256 = FileHash(iUpload[r])}) = 1
            /\ \E t \in tracks : /\ t.file_hash_sha256 = FileHash(iUpload[r])
                                 /\ t.id = iTrackId[r]

(***************************************************************************)
(* Properties of the inference gate and of the search endpoint             *)
(***************************************************************************)
\* generate_embedding calls in execution: the one this request started, and
\* the one of the other lane that holds the semaphore (a holder is always
\* at `await loop.run_in_executor(...)`).
InferencesRunning ==
    (IF threadRunning THEN 1 ELSE 0) + (IF clapSem = "other" THEN 1 ELSE 0)

\* C21: at most one embedding-model inference executes at any instant.
C21_OneInferenceAtATime == InferencesRunning <= 1

\* The gate is released on every way out of the inference: the request holds
\* it only while its lane awaits the inference, every step that takes the
\* lane out of the inference (return, exception, timeout with cancellation)
\* leaves it free, and a gate held by the request always becomes free again.
C23_ReleaseStep ==
    (clapSem = "req" /\ lanePc'["vibe"] # "infer") => clapSem' = "free"

C23_Released ==
    /\ [](clapSem = "req" => lanePc["vibe"] = "infer")
    /\ [][C23_ReleaseStep]_vars
    /\ ((clapSem = "req") ~> (clapSem = "free"))

\* C23 as stated: the gate is released on every path, and a lane waiting for
\* the gate eventually acquires it.
C23_WaiterAcquires ==
    /\ C23_Released
    /\ ((lanePc["vibe"] = "sem_wait") ~> (clapSem = "req"))

\* C23 as amended: the gate is released on every path, and a lane waiting
\* for the gate eventually acquires it or is timed out by its own wait_for
\* without having held it.
C23_GateReleased ==
    /\ C23_Released
    /\ ((lanePc["vibe"] = "sem_wait") ~>
            (clapSem = "req" \/ laneOutcome["vibe"] = "timeout"))
    /\ [][(lanePc["vibe"] = "sem_wait" /\ lanePc'["vibe"] # "sem_wait") =>
             (clapSem' = "req" \/ (laneOutcome'["vibe"] = "timeout"
                                    /\ clapSem' = clapSem))]_vars

\* C23 witness: the lane was cancelled by its timeout in the middle of the
\* inference (the thread is still running) and the gate is free.
C23_Witness ==
    /\ laneOutcome["vibe"] = "timeout"
    /\ threadRunning
    /\ clapSem = "free"

\* C25: a request whose lanes both failed is answered 503 with the code
\* SERVICE_UNAVAILABLE.
C25_BothFail503Code ==
    (reqState = "TERMINAL" /\ orchResult = "SearchUnavailableError") =>
        /\ httpStatus = 503
        /\ httpCode = "SERVICE_UNAVAILABLE"

\* C26: the step that rejects a zero-byte upload answers 400 EMPTY_FILE and
\* starts no lane.
C26_EmptyStep ==
    Reject("empty") =>
        /\ httpStatus' = 400
        /\ httpCode' = "EMPTY_FILE"
        /\ \A l \in Lanes : laneStarts'[l] = 0

C26_ZeroByteIsEmptyFile == [][C26_EmptyStep]_vars

\* C27: without the embedding model the orchestrator is never run in mode
\* both (such a request runs it in mode exact), and the vibe lane is not
\* started for it.
C27_BothDowngradedToExact ==
    ~clapLoaded => (sMode # "both" /\ laneStarts["vibe"] = 0)

\* C28: with empty PCM every requested lane ends with an empty result and
\* never with an error.
C28_EmptyPcmEmptyResult ==
    (reqState # "READY" /\ clip = 0) =>
        \A l \in Requested(sMode) :
            /\ laneOutcome[l] \in {"none", "result"}
            /\ laneMatches[l] = << >>

\* The fingerprint queries a clip of duration d is to get: one per
\* sub-window whose start lies before its stop clamped to d when d <= 5.0 s,
\* one when d > 5.0 s.
ExpectedQueries(d) ==
    IF d > 500 THEN 1
    ELSE Cardinality({w \in {<<0, 350>>, <<75, 425>>, <<150, 500>>} :
                         w[1] < (IF w[2] < d THEN w[2] ELSE d)})

\* C29: the exact lane makes ExpectedQueries(clip) fingerprint queries, one
\* after the other: three for a clip of exactly 5.0 s, one for 5.01 s; it
\* goes on to the metadata lookup only when all of them have answered.
C29_SubWindowOrFullClip ==
    /\ ExpectedQueries(500) = 3
    /\ ExpectedQueries(501) = 1
    /\ lanePc["exact"] = "created" => queriesLeft = ExpectedQueries(clip)
    /\ lanePc["exact"] = "query" =>
           /\ procRunning
           /\ queriesLeft >= 1
           /\ queriesLeft <= ExpectedQueries(clip)
    /\ lanePc["exact"] = "enrich" => queriesLeft = 0

\* C29 witness: a clip of exactly 5.0 s has the third of its three queries
\* in flight.
C29_Witness ==
    /\ clip = 500
    /\ lanePc["exact"] = "query"
    /\ queriesLeft = 1
    /\ ExpectedQueries(clip) = 3

\* C22: in the step in which an ingestion runs its embedding inference no
\* other inference is in execution and the gate is free for it to take.
C22_IngestInferStep ==
    \A r \in IngestReqs :
        (embCount[r] = 0 /\ embCount'[r] > 0) =>
            (InferencesRunning = 0 /\ clapSem = "free")

C22_GateSharedWithIngest == [][C22_IngestInferStep]_vars

\* C24: no ingestion that holds the ingestion mutex holds the inference gate
\* or has its olaf_c store child running, and the request holds the gate
\* only while its lane awaits the inference.
C24_NoNestedLocks ==
    /\ \A r \in IngestReqs :
          (InPipeline(r) /\ ingestLocked) => olafPc[r] # "proc"
    /\ clapSem = "req" => lanePc["vibe"] = "infer"

C31_ExactResponseInvariants ==
    scorePc = "returned" =>
        /\ \A i \in 1 .. Len(exact_matches) :
              /\ exact_matches[i].confidence >= 0
              /\ exact_matches[i].confidence <= 100
              /\ exact_matches[i].aligned_hashes >= 8
              /\ [track_uuid |-> exact_matches[i].track,
                  aligned_hashes |-> exact_matches[i].aligned_hashes]
                     \in candidates
        /\ \A i, j \in 1 .. Len(exact_matches) :
              i < j => exact_matches[i].confidence >= exact_matches[j].confidence

\* C31 witness: t2 (9 hashes over two windows, confidence 0.45) is returned
\* before t1 (16 hashes in one window, penalised to 8, confidence 0.40).
C31_Witness ==
    /\ scorePc = "returned"
    /\ exact_matches =
           <<[track |-> "t2", confidence |-> 45, aligned_hashes |-> 9],
             [track |-> "t1", confidence |-> 40, aligned_hashes |-> 8]>>

\* Tracks of a list of matches, in order.
TracksOf(ms) == [i \in 1 .. Len(ms) |-> ms[i].track]

\* C32: a lane whose lookup has answered returns a match for exactly those
\* of its ranked candidates whose Track row was found, in ranking order; a
\* candidate without a row is left out, and the lookup step never ends the
\* lane with an exception.
C32_DroppedState ==
    /\ (scorePc = "returned" /\ top_matches # << >>) =>
           /\ TracksOf(exact_matches) =
                  SelectSeq([i \in 1 .. Len(top_matches) |-> top_matches[i].track_uuid],
                            LAMBDA t : t \in exact_tracks_by_id)
           /\ \A i \in 1 .. Len(top_matches) :
                  top_matches[i].track_uuid \notin exact_tracks_by_id =>
                      \A j \in 1 .. Len(exact_matches) :
                          exact_matches[j].track # top_matches[i].track_uuid
    /\ (vibePc = "returned" /\ limited_results # << >>) =>
           /\ TracksOf(vibe_matches) =
                  SelectSeq([i \in 1 .. Len(limited_results) |-> limited_results[i].track_id],
                            LAMBDA t : t \in vibe_tracks_by_id)
           /\ \A i \in 1 .. Len(limited_results) :
                  limited_results[i].track_id \notin vibe_tracks_by_id =>
                      \A j \in 1 .. Len(vibe_matches) :
                          vibe_matches[j].track # limited_results[i].track_id

C32_LookupStep ==
    /\ scorePc = "lookup" => scorePc' \in {"lookup", "returned"}
    /\ vibePc = "tracks" => vibePc' \in {"tracks", "returned"}

C32_MissingTracksDropped == [](C32_DroppedState) /\ [][C32_LookupStep]_vars

\* C32 witness: two candidates were ranked, the row of the first is gone,
\* and the exact lane returned the second alone.
C32_Witness ==
    /\ scorePc = "returned"
    /\ Len(top_matches) = 2
    /\ top_matches[1].track_uuid \notin exact_tracks_by_id
    /\ Len(exact_matches) = 1
    /\ exact_matches[1].track = top_matches[2].track_uuid

\* C33: the list an aggregation returned is in descending order of
\* final_score, names no track twice and does not name the track given as
\* exact_match_track_id.
C33_AggregationInvariants ==
    vibePc \in {"tracks", "returned"} =>
        /\ \A i, j \in 1 .. Len(track_results) :
              i < j =>
                  /\ track_results[i].final_score >= track_results[j].final_score
                  /\ track_results[i].track_id # track_results[j].track_id
        /\ \A i \in 1 .. Len(track_results) :
              track_results[i].track_id # exact_match_track_id
        /\ \A i \in 1 .. Len(chunk_hits) :
              chunk_hits[i].track_id # exact_match_track_id =>
                  \E j \in 1 .. Len(track_results) :
                      track_results[j].track_id = chunk_hits[i].track_id

\* C33 witness: t1 is the exact match and has hits; t2 alone is aggregated.
C33_Witness ==
    /\ vibePc \in {"tracks", "returned"}
    /\ exact_match_track_id = "t1"
    /\ \E i \in 1 .. Len(chunk_hits) : chunk_hits[i].track_id = "t1"
    /\ Len(track_results) = 1
    /\ track_results[1].track_id = "t2"

\* C34: every match of a vibe-lane response has a similarity in [0, 1]
\* (six-hundredths: 0 .. 600), its track was aggregated with a final score
\* of at least vibe_match_threshold (0.60), and the response has at most
\* max_results matches.
C34_VibeResponseInvariants ==
    vibePc = "returned" =>
        /\ \A i \in 1 .. Len(vibe_matches) :
              /\ vibe_matches[i].similarity >= 0
              /\ vibe_matches[i].similarity <= 600
              /\ \E j \in 1 .. Len(track_results) :
                    /\ track_results[j].track_id = vibe_matches[i].track
                    /\ 10 * track_results[j].final_score >= 6 * 600
        /\ Len(vibe_matches) <= vibe_max_results

\* C34 witness: two tracks were aggregated, max_results is 1, and the one
\* match returned has a final score above 1.0, clamped to 1.0.
C34_Witness ==
    /\ vibePc = "returned"
    /\ Len(track_results) = 2
    /\ track_results[2].final_score >= 360
    /\ vibe_max_results = 1
    /\ Len(vibe_matches) = 1
    /\ track_results[1].final_score > 600
    /\ vibe_matches[1].similarity = 600

\* C35: when query_points raises, the lane has no chunk hits and returns an
\* empty list; it does not raise.
C35_StoreErrorIsEmpty ==
    (reply.error /\ vibePc # "idle") =>
        /\ vibePc = "returned"
        /\ chunk_hits = << >>
        /\ vibe_matches = << >>

\* C35 witness: query_points raised and the lane returned.
C35_Witness ==
    /\ reply.error
    /\ vibePc = "returned"
    /\ vibe_matches = << >>

\* The point has a UUID track_id and a well-formed chunk_index and
\* offset_sec.
WellFormed(pt) ==
    /\ pt.track_id \notin {"missing", "x"}
    /\ pt.chunk_index.kind = "ok"
    /\ pt.offset_sec.kind = "ok"

\* C36: the chunk hits handed to aggregation are those of the well-formed
\* points, one each and in order; any other point is skipped, and the lane
\* goes on.
C36_InvalidPointsSkipped ==
    vibePc # "idle" =>
        /\ vibePc # "raised"
        /\ Len(chunk_hits) = Len(SelectSeq(reply.points, WellFormed))

(***************************************************************************)
(* Properties of the end of an ingestion                                   *)
(***************************************************************************)

\* C37: when olaf_index_track has ended for a run, on any path, the .raw
\* temp file it created for the olaf_c invocation is gone.
C37_OlafTempFileRemoved ==
    \A r \in IngestReqs : olafPc[r] = "done" => ~olafTmp[r]

\* C38: when ingest_file has returned for a run, with any status, none of
\* the run's subtasks is still running, so none writes to a store after the
\* return and the release of the lock.
C38_NoSubtaskAfterReturn ==
    \A r \in IngestReqs :
        Returned(r) => (chromaPc[r] # "db" /\ olafPc[r] # "proc")

\* The run of r has left the async with block of ingest_audio, by a return
\* of ingest_file or by cancellation.
Ended(r) == ipc[r] = "cancelled" \/ (ipc[r] = "done" /\ iWork[r] # {})

C39_FreeState ==
    /\ ingestLocked => \E r \in IngestReqs : InPipeline(r)
    /\ \A r \in IngestReqs : Ended(r) => ~iTmp[r]

C39_EndStep ==
    \A r \in IngestReqs :
        /\ (InPipeline(r) /\ ~InPipeline(r)') => (~ingestLocked' /\ ~iTmp'[r])
        /\ (iHttp[r] # 429 /\ iHttp'[r] = 429) =>
               \E o \in IngestReqs \ {r} : InPipeline(o)

====
